---- MODULE Spec2Model ----
(***************************************************************************)
(* A model of axum-cookie (src/src/lib.rs): the CookieManager facade over  *)
(* one mutex-guarded CookieJar, the CookieMiddleware entry/exit protocol   *)
(* around a downstream handler, and the FromRequestParts extractor.        *)
(*                                                                         *)
(* The cookie_rs crate (Cookie, CookieJar and its parser) is not part of   *)
(* src/; its operations are modelled from the specification's Jar/Codec    *)
(* contract and are the definitions named Jar*.                            *)
(***************************************************************************)
EXTENDS Integers, Sequences, FiniteSets, TLC

\* ------------------------------------------------------------------ bounds

\* Longest Cookie header value, in cookie-pair segments.
MaxSegs == 2
\* Most Cookie header occurrences on one request.
MaxHdrs == 2
\* Most CookieManager calls the handler's tasks start during one request.
MaxCalls == 2
\* Most retrievals of the CookieManager by one handler call's extractors.
MaxExtracts == 2

\* ------------------------------------------------------------- value sets

Names == {"a", "b"}
Values == {"v1", "v2"}
\* BTreeSet order of cookies (by name).
NameOrder == <<"a", "b">>
Cookies == [name : Names, value : Values]
\* Cookie::new("a", "x\ny"): a value with a line feed in it.
ControlCookie == [name |-> "a", value |-> "x\ny"]
\* The cookies a handler passes to add/set.
HandlerCookies == Cookies \cup {ControlCookie}
\* Option::None of get().
NoCookie == [name |-> "", value |-> ""]

\* Tasks holding clones of the request's CookieManager; Mw is the
\* middleware's response future, which locks the jar at exit.
Tasks == {"t1", "t2"}
Mw == "mw"
Procs == Tasks \cup {Mw}
Free == "free"

BAD_REQUEST == 400
INTERNAL_SERVER_ERROR == 500

\* A segment of a Cookie header value: a name=value pair, or an entry
\* with no '='.
Malformed == [wf |-> FALSE, name |-> "", value |-> ""]
Pair(n, v) == [wf |-> TRUE, name |-> n, value |-> v]
Segments == {Pair("a", "v1"), Pair("b", "v2"), Malformed}

SeqsUpTo(S, n) == UNION {[1..k -> S] : k \in 0..n}

\* A header value: visible-ASCII text made of segments, or opaque bytes
\* (HeaderValue admits obs-text, on which to_str() fails).
NonText == [text |-> FALSE, segs |-> <<>>]
HeaderValues == {[text |-> TRUE, segs |-> s] : s \in SeqsUpTo(Segments, MaxSegs)}
                  \cup {NonText}
HeaderLists == SeqsUpTo(HeaderValues, MaxHdrs)

\* What a handler puts on its own response.
HandlerHeader == [hdr |-> "x-handler", text |-> <<"1">>]
HandlerHeaderChoices == {<<>>, <<HandlerHeader>>}

\* ----------------------------------------------------- cookie_rs (the jar)

\* CookieJar::add: upsert by name.
JarAdd(j, c) == {x \in j : x.name # c.name} \cup {c}

\* CookieJar::remove: delete the entry if present.
JarRemove(j, n) == {x \in j : x.name # n}

\* CookieJar::get.
JarGet(j, n) == IF \E x \in j : x.name = n
                THEN CHOOSE x \in j : x.name = n
                ELSE NoCookie

\* CookieJar::cookie: every cookie currently held.
JarCookie(j) == j

\* Cookie's Display: "name=value".
CookieToString(c) == <<c.name, "=", c.value>>

\* CookieJar::as_header_values: one string per cookie, in set order.
JarAsHeaderValues(j) ==
    LET F[i \in 0..Len(NameOrder)] ==
          IF i = 0 THEN <<>>
          ELSE F[i - 1] \o
               (IF JarGet(j, NameOrder[i]) = NoCookie THEN <<>>
                ELSE <<CookieToString(JarGet(j, NameOrder[i]))>>)
    IN F[Len(NameOrder)]

\* CookieJar::parse / parse_strict on a header text: strict rejects on a
\* malformed cookie-pair, lenient skips it.
JarParse(isStrict, segs) ==
    LET F[i \in 0..Len(segs)] ==
          IF i = 0 THEN {}
          ELSE IF segs[i].wf
               THEN JarAdd(F[i - 1], [name |-> segs[i].name, value |-> segs[i].value])
               ELSE F[i - 1]
        bad == \E i \in 1..Len(segs) : ~segs[i].wf
    IN IF isStrict /\ bad
       THEN [ok |-> FALSE, jar |-> {}]
       ELSE [ok |-> TRUE, jar |-> F[Len(segs)]]

\* --------------------------------------------------------------- the state

VARIABLES
    strict,        \* CookieMiddleware.strict
    installed,     \* whether the CookieLayer wraps the handler
    reqHeaders,    \* the request's Cookie header occurrences, in order
    phase,         \* where the request is in the middleware/handler
    slot,          \* the request extension Result<CookieManager, Rejection>
    slotWrites,    \* extensions_mut().insert calls on this request
    handlerCalls,  \* inner.call invocations on this request
    got,           \* what from_request_parts returned to the handler
    jar,           \* the CookieJar behind the Arc<Mutex<..>>
    jar0,          \* the jar as CookieManager::new received it
    lock,          \* the mutex: Free, or the task (or Mw) holding the guard
    poisoned,      \* the mutex's poison flag
    pc,            \* each task's position in its current manager call
    op,            \* each task's current (or last) manager call
    snap,          \* the jar as seen through each lock holder's guard
    ret,           \* what each task's last call returned
    retExp,        \* lastMut of the name a get read, when it read it
    lastMut,       \* per name, the latest mutation in lock order
    calls,         \* manager calls started so far
    handlerHdrs,   \* the headers of the response the handler produced
    respHeaders,   \* the headers of the response the middleware returns
    outcome,       \* pending | response | error | panic
    factory,       \* how the CookieLayer was made: default | strict
    mwArc,         \* the Arc the middleware's own manager points to
    slotArc,       \* the Arc the manager in the slot points to
    gotArc,        \* the Arc the manager the handler retrieved points to
    extracts,      \* retrievals made by the extractors of this handler call
    gotAgain,      \* what the latest repeated retrieval returned
    jarAtResolve,  \* the jar when the handler's future resolved
    serialized,    \* the jar the exit's as_header_value() serialized
    retView,       \* lastMut as it was when a task's read ran
    handlerErr,    \* the error the handler's future resolved with
    returnedErr,   \* the error the middleware's future returned
    mreq,          \* two requests in flight through one middleware
    arcs           \* the jars those requests' managers point to

vars == <<strict, installed, reqHeaders, phase, slot, slotWrites, handlerCalls,
          got, jar, jar0, lock, poisoned, pc, op, snap, ret, retExp, lastMut,
          calls, handlerHdrs, respHeaders, outcome, factory, mwArc, slotArc,
          gotArc, extracts, gotAgain, jarAtResolve, serialized, retView,
          handlerErr, returnedErr, mreq, arcs>>

\* What the actions below leave alone unless they say otherwise.
auxVars == <<factory, mwArc, slotArc, gotArc, extracts, gotAgain,
             jarAtResolve, serialized, retView, handlerErr, returnedErr,
             mreq, arcs>>

reqVars == <<strict, installed, reqHeaders, phase, slot, slotWrites,
             handlerCalls, got, jar0, handlerHdrs, respHeaders, outcome>>

Absent == [kind |-> "absent", status |-> 0, msg |-> ""]
OkManager == [kind |-> "ok", status |-> 0, msg |-> ""]
Rejection(status, msg) == [kind |-> "err", status |-> status, msg |-> msg]

NoOp == [kind |-> "none", cookie |-> NoCookie, name |-> "", bad |-> FALSE]
NoRet == [kind |-> "none", name |-> "", cookie |-> NoCookie, set |-> {},
          list |-> <<>>]
NoMut == [kind |-> "none", cookie |-> NoCookie]
NoArc == "none"
NoJar == [done |-> FALSE, jar |-> {}, quiet |-> TRUE]
NoErr == "none"
NoView == [n \in Names |-> NoMut]

\* ------------------------------------------------- CookieMiddleware::call

\* The header never read: the text is always the default "".
CookieStrIgnored(hs) == [ok |-> TRUE, segs |-> <<>>]

\* req.headers().get(COOKIE).map(|h| h.to_str()).unwrap_or(Ok("")):
\* HeaderMap::get yields the first value of the name.
CookieStr(hs) ==
    IF hs = <<>> THEN [ok |-> TRUE, segs |-> <<>>]
    ELSE IF Head(hs).text THEN [ok |-> TRUE, segs |-> Head(hs).segs]
    ELSE [ok |-> FALSE, segs |-> <<>>]

\* The Result<CookieManager, (StatusCode, String)> built at entry.
ParseOutcome(isStrict, hs) ==
    LET c == CookieStr(hs)
        p == JarParse(isStrict, c.segs)
    IN IF ~c.ok THEN Rejection(BAD_REQUEST, "to_str error")
       ELSE IF ~p.ok THEN Rejection(BAD_REQUEST, "parse error")
       ELSE OkManager

\* The jar handed to CookieManager::new (empty when there is no manager).
ParsedJar(isStrict, hs) ==
    IF ParseOutcome(isStrict, hs).kind = "ok"
    THEN JarParse(isStrict, CookieStr(hs).segs).jar
    ELSE {}

\* The value inserted into the request's extensions.
SlotValue(isStrict, hs) == ParseOutcome(isStrict, hs)

\* CookieManager::new: Arc::new(Mutex::new(jar)), a new allocation.
NewManager == "arc1"

\* A clone that copies the jar into an allocation of its own.
CloneManagerDeep(a) == IF a = NoArc THEN NoArc ELSE "copy"

\* #[derive(Clone)] on CookieManager: Arc::clone, the same allocation.
CloneManager(a) == a

\* How a CookieLayer is made.
Factories == {"default", "strict"}

\* CookieLayer::default() (#[derive(Default)]: strict is false) and
\* CookieLayer::strict() (strict: true): the layer's flag.
NewLayer(kind) == kind = "strict"

\* A layer() that builds the middleware with the default flag.
LayerLenient(flag) == FALSE

\* Layer::layer: CookieMiddleware { strict: self.strict, inner }.
Layer(flag) == flag

\* The state of one request once the router is built, before call().
InitRequest ==
    /\ factory \in Factories
    /\ strict = Layer(NewLayer(factory))
    /\ installed \in BOOLEAN
    /\ reqHeaders \in HeaderLists
    /\ phase = "arrived"
    /\ slot = Absent
    /\ slotWrites = 0
    /\ handlerCalls = 0
    /\ got = Absent
    /\ jar = {}
    /\ jar0 = {}
    /\ lock = Free
    /\ poisoned = FALSE
    /\ pc = [t \in Tasks |-> "idle"]
    /\ op = [t \in Tasks |-> NoOp]
    /\ snap = [p \in Procs |-> {}]
    /\ ret = [t \in Tasks |-> NoRet]
    /\ retExp = [t \in Tasks |-> NoMut]
    /\ lastMut = [n \in Names |-> NoMut]
    /\ calls = 0
    /\ handlerHdrs = <<>>
    /\ respHeaders = <<>>
    /\ outcome = "pending"
    /\ mwArc = NoArc
    /\ slotArc = NoArc
    /\ gotArc = NoArc
    /\ extracts = 0
    /\ gotAgain = Absent
    /\ jarAtResolve = NoJar
    /\ serialized = NoJar
    /\ retView = [t \in Tasks |-> NoView]
    /\ handlerErr = NoErr
    /\ returnedErr = NoErr

Init ==
    /\ InitRequest
    /\ mreq = <<>>
    /\ arcs = <<>>

taskVars == <<lock, poisoned, pc, op, snap, ret, retExp, lastMut, calls>>

\* call(), up to and including req.extensions_mut().insert(manager.clone()).
Entry ==
    /\ installed
    /\ phase = "arrived"
    /\ slot' = SlotValue(strict, reqHeaders)
    /\ slotWrites' = slotWrites + 1
    /\ jar' = ParsedJar(strict, reqHeaders)
    /\ jar0' = ParsedJar(strict, reqHeaders)
    /\ phase' = "entered"
    /\ mwArc' = IF SlotValue(strict, reqHeaders).kind = "ok"
                THEN NewManager ELSE NoArc
    /\ slotArc' = CloneManager(mwArc')
    /\ UNCHANGED <<strict, installed, reqHeaders, handlerCalls, got,
                   handlerHdrs, respHeaders, outcome>>
    /\ UNCHANGED taskVars
    /\ UNCHANGED <<factory, gotArc, extracts, gotAgain, jarAtResolve,
                   serialized, retView, handlerErr, returnedErr, mreq, arcs>>

\* The handler invoked only for a request that parsed.
DispatchUnlessFailed ==
    /\ phase = "entered"
    /\ slot.kind = "ok"
    /\ handlerCalls' = handlerCalls + 1
    /\ phase' = "dispatched"
    /\ UNCHANGED <<strict, installed, reqHeaders, slot, slotWrites, got, jar,
                   jar0, handlerHdrs, respHeaders, outcome>>
    /\ UNCHANGED <<lock, poisoned, pc, op, snap, ret, retExp, lastMut, calls>>
    /\ UNCHANGED auxVars

\* let fut = self.inner.call(req).
Dispatch ==
    /\ phase = "entered"
    /\ handlerCalls' = handlerCalls + 1
    /\ phase' = "dispatched"
    /\ UNCHANGED <<strict, installed, reqHeaders, slot, slotWrites, got, jar,
                   jar0, handlerHdrs, respHeaders, outcome>>
    /\ UNCHANGED taskVars
    /\ UNCHANGED auxVars

\* The handler mounted without the CookieLayer: the router calls it.
DirectDispatch ==
    /\ ~installed
    /\ phase = "arrived"
    /\ handlerCalls' = handlerCalls + 1
    /\ phase' = "dispatched"
    /\ UNCHANGED <<strict, installed, reqHeaders, slot, slotWrites, got, jar,
                   jar0, handlerHdrs, respHeaders, outcome>>
    /\ UNCHANGED taskVars
    /\ UNCHANGED auxVars

\* ------------------------------------- CookieManager::from_request_parts

\* An absent slot answered with a fresh, empty manager.
FromRequestPartsDefault(s) == IF s.kind = "absent" THEN OkManager ELSE s

\* parts.extensions.get::<Result<Self, Rejection>>().cloned().ok_or(..)?
FromRequestParts(s) ==
    IF s.kind = "absent"
    THEN Rejection(INTERNAL_SERVER_ERROR, "CookieLayer is not initialized")
    ELSE s

\* A retrieval that takes the value out of the extensions.
SlotTaken(s) == Absent

\* extensions.get::<..>() borrows: the slot is as it was.
SlotAfterRetrieval(s) == s

\* The Arc of the manager a retrieval hands out (none with a rejection).
RetrievedArc(r, a) == IF r.kind = "ok" THEN CloneManager(a) ELSE NoArc

\* The handler's first CookieManager extractor.
Extract ==
    /\ phase = "dispatched"
    /\ got' = FromRequestParts(slot)
    /\ gotArc' = RetrievedArc(FromRequestParts(slot), slotArc)
    /\ slot' = SlotAfterRetrieval(slot)
    /\ extracts' = 1
    /\ phase' = "extracted"
    /\ UNCHANGED <<strict, installed, reqHeaders, slotWrites,
                   handlerCalls, jar, jar0, handlerHdrs, respHeaders, outcome>>
    /\ UNCHANGED taskVars
    /\ UNCHANGED <<factory, mwArc, slotArc, gotAgain, jarAtResolve,
                   serialized, retView, handlerErr, returnedErr, mreq, arcs>>

\* A further CookieManager extractor of the same handler call.
ExtractAgain ==
    /\ phase = "extracted"
    /\ extracts < MaxExtracts
    /\ gotAgain' = FromRequestParts(slot)
    /\ gotArc' = RetrievedArc(FromRequestParts(slot), slotArc)
    /\ slot' = SlotAfterRetrieval(slot)
    /\ extracts' = extracts + 1
    /\ UNCHANGED <<strict, installed, reqHeaders, phase, slotWrites, got,
                   handlerCalls, jar, jar0, handlerHdrs, respHeaders, outcome>>
    /\ UNCHANGED taskVars
    /\ UNCHANGED <<factory, mwArc, slotArc, jarAtResolve, serialized,
                   retView, handlerErr, returnedErr, mreq, arcs>>

\* The handler's body starts: the extractors are done, the request is
\* dropped (tests.rs:29 and main.rs:28 take the CookieManager alone) and
\* the body works with the manager it was given.
HandlerBody ==
    /\ phase = "extracted"
    /\ phase' = "running"
    /\ reqHeaders' = <<>>
    /\ extracts' = 0
    /\ gotAgain' = Absent
    /\ UNCHANGED <<strict, installed, slot, slotWrites, handlerCalls, got, jar,
                   jar0, handlerHdrs, respHeaders, outcome>>
    /\ UNCHANGED taskVars
    /\ UNCHANGED <<factory, mwArc, slotArc, gotArc, jarAtResolve, serialized,
                   retView, handlerErr, returnedErr, mreq, arcs>>

\* ------------------------------------------------------- CookieManager

\* What a task may call on its clone of the manager.  An add/set argument
\* is any C: Into<Cookie<'static>>; bad marks one whose into() panics.
OpChoices ==
    {[kind |-> k, cookie |-> c, name |-> c.name, bad |-> FALSE] :
        k \in {"add", "set"}, c \in HandlerCookies}
    \cup {[kind |-> k, cookie |-> NoCookie, name |-> "", bad |-> TRUE] :
            k \in {"add", "set"}}
    \cup {[kind |-> k, cookie |-> NoCookie, name |-> n, bad |-> FALSE] :
            k \in {"remove", "get"}, n \in Names}
    \cup {[kind |-> k, cookie |-> NoCookie, name |-> "", bad |-> FALSE] :
            k \in {"cookie", "as_header_value"}}

\* A task calls a manager method: it is now blocked in self.jar.lock().
Start(t, o) ==
    /\ got.kind = "ok"
    /\ phase = "running"
    /\ pc[t] = "idle"
    /\ calls < MaxCalls
    /\ calls' = calls + 1
    /\ pc' = [pc EXCEPT ![t] = "wait"]
    /\ op' = [op EXCEPT ![t] = o]
    /\ ret' = [ret EXCEPT ![t] = NoRet]
    /\ retExp' = [retExp EXCEPT ![t] = NoMut]
    /\ retView' = [retView EXCEPT ![t] = NoView]
    /\ UNCHANGED <<jar, lock, poisoned, snap, lastMut>>
    /\ UNCHANGED reqVars
    /\ UNCHANGED <<factory, mwArc, slotArc, gotArc, extracts, gotAgain,
                   jarAtResolve, serialized, handlerErr, returnedErr, mreq,
                   arcs>>

\* A lock that excludes nobody.
LockAvailableAlways == TRUE

\* Mutex::lock returns once no other guard is alive.
LockAvailable == lock = Free

\* A guard that outlives its call (leaked, never dropped).
GuardDropLeaked(p) == p

\* The guard goes out of scope (also while unwinding).
GuardDrop(p) == Free

\* self.jar.lock().unwrap(): on a poisoned mutex lock() is an Err, unwrap
\* panics and the guard inside the error is dropped.
Acquire(t) ==
    /\ pc[t] = "wait"
    /\ LockAvailable
    /\ IF poisoned
       THEN /\ pc' = [pc EXCEPT ![t] = "dead"]
            /\ op' = [op EXCEPT ![t] = NoOp]
            /\ UNCHANGED <<lock, snap>>
       ELSE /\ pc' = [pc EXCEPT ![t] = "held"]
            /\ lock' = t
            /\ snap' = [snap EXCEPT ![t] = jar]
            /\ UNCHANGED op
    /\ UNCHANGED <<jar, poisoned, ret, retExp, lastMut, calls>>
    /\ UNCHANGED reqVars
    /\ UNCHANGED auxVars

\* A panic between lock() and the guard's drop: the mutex is poisoned.
PanicInSection(t) ==
    /\ poisoned' = TRUE
    /\ lock' = GuardDrop(t)
    /\ pc' = [pc EXCEPT ![t] = "dead"]
    /\ op' = [op EXCEPT ![t] = NoOp]
    /\ snap' = [snap EXCEPT ![t] = {}]
    /\ UNCHANGED <<jar, ret, retExp, lastMut>>

\* A section that returns: the result is handed back and the guard dropped.
Return(t, r) ==
    /\ ret' = [ret EXCEPT ![t] = r]
    /\ lock' = GuardDrop(t)
    /\ pc' = [pc EXCEPT ![t] = "idle"]
    /\ op' = [op EXCEPT ![t] = NoOp]
    /\ snap' = [snap EXCEPT ![t] = {}]
    /\ UNCHANGED poisoned

Unit == [NoRet EXCEPT !.kind = "unit"]

\* add() pushing the cookie next to the ones the jar holds.
AddBodyAppend(j, c) == j \cup {c}

\* jar.add(cookie) of add().
AddBody(j, c) == JarAdd(j, c)

\* set() leaving the jar as it was.
SetBodyDropped(j, c) == j

\* jar.add(cookie) of set().
SetBody(j, c) == JarAdd(j, c)

\* remove() leaving the jar as it was.
RemoveBodyKept(j, n) == j

\* remove() emptying the jar.
RemoveBodyClears(j, n) == {}

\* jar.remove(name.to_owned()).
RemoveBody(j, n) == JarRemove(j, n)

\* jar.get(name).cloned().
GetBody(j, n) == JarGet(j, n)

\* as_header_value() giving no strings at all.
AsHeaderValueBodyNone(j) == <<>>

\* jar.as_header_values().
AsHeaderValueBody(j) == JarAsHeaderValues(j)

\* CookieManager::add, with the guard held: jar.add converts its argument
\* (cookie.into()) and then inserts.
ManagerAdd(t) ==
    /\ pc[t] = "held"
    /\ op[t].kind = "add"
    /\ IF op[t].bad
       THEN PanicInSection(t)
       ELSE /\ jar' = AddBody(snap[t], op[t].cookie)
            /\ lastMut' = [lastMut EXCEPT ![op[t].name] =
                              [kind |-> "add", cookie |-> op[t].cookie]]
            /\ Return(t, Unit)
            /\ UNCHANGED retExp
    /\ UNCHANGED calls
    /\ UNCHANGED reqVars
    /\ UNCHANGED auxVars

\* CookieManager::set, with the guard held.
ManagerSet(t) ==
    /\ pc[t] = "held"
    /\ op[t].kind = "set"
    /\ IF op[t].bad
       THEN PanicInSection(t)
       ELSE /\ jar' = SetBody(snap[t], op[t].cookie)
            /\ lastMut' = [lastMut EXCEPT ![op[t].name] =
                              [kind |-> "add", cookie |-> op[t].cookie]]
            /\ Return(t, Unit)
            /\ UNCHANGED retExp
    /\ UNCHANGED calls
    /\ UNCHANGED reqVars
    /\ UNCHANGED auxVars

\* CookieManager::remove, with the guard held.
ManagerRemove(t) ==
    /\ pc[t] = "held"
    /\ op[t].kind = "remove"
    /\ jar' = RemoveBody(snap[t], op[t].name)
    /\ lastMut' = [lastMut EXCEPT ![op[t].name] =
                      [kind |-> "remove", cookie |-> NoCookie]]
    /\ Return(t, Unit)
    /\ UNCHANGED <<retExp, calls>>
    /\ UNCHANGED reqVars
    /\ UNCHANGED auxVars

\* CookieManager::get, with the guard held.
ManagerGet(t) ==
    /\ pc[t] = "held"
    /\ op[t].kind = "get"
    /\ Return(t, [NoRet EXCEPT !.kind = "cookie", !.name = op[t].name,
                               !.cookie = GetBody(snap[t], op[t].name)])
    /\ retExp' = [retExp EXCEPT ![t] = lastMut[op[t].name]]
    /\ retView' = [retView EXCEPT ![t] = lastMut]
    /\ UNCHANGED <<jar, lastMut, calls>>
    /\ UNCHANGED reqVars
    /\ UNCHANGED <<factory, mwArc, slotArc, gotArc, extracts, gotAgain,
                   jarAtResolve, serialized, handlerErr, returnedErr, mreq,
                   arcs>>

\* CookieManager::cookie, with the guard held.
ManagerCookie(t) ==
    /\ pc[t] = "held"
    /\ op[t].kind = "cookie"
    /\ Return(t, [NoRet EXCEPT !.kind = "set", !.set = JarCookie(snap[t])])
    /\ retView' = [retView EXCEPT ![t] = lastMut]
    /\ UNCHANGED <<jar, lastMut, retExp, calls>>
    /\ UNCHANGED reqVars
    /\ UNCHANGED <<factory, mwArc, slotArc, gotArc, extracts, gotAgain,
                   jarAtResolve, serialized, handlerErr, returnedErr, mreq,
                   arcs>>

\* CookieManager::as_header_value, with the guard held.
ManagerAsHeaderValue(t) ==
    /\ pc[t] = "held"
    /\ op[t].kind = "as_header_value"
    /\ Return(t, [NoRet EXCEPT !.kind = "list",
                               !.list = AsHeaderValueBody(snap[t])])
    /\ retView' = [retView EXCEPT ![t] = lastMut]
    /\ UNCHANGED <<jar, lastMut, retExp, calls>>
    /\ UNCHANGED reqVars
    /\ UNCHANGED <<factory, mwArc, slotArc, gotArc, extracts, gotAgain,
                   jarAtResolve, serialized, handlerErr, returnedErr, mreq,
                   arcs>>

Section(t) ==
    \/ ManagerAdd(t)
    \/ ManagerSet(t)
    \/ ManagerRemove(t)
    \/ ManagerGet(t)
    \/ ManagerCookie(t)
    \/ ManagerAsHeaderValue(t)

\* ------------------------------------- the handler's future, and the exit

\* The extractor rejected: axum answers with the rejection, the handler's
\* body never runs.
Reject(h) ==
    /\ phase = "extracted"
    /\ got.kind = "err"
    /\ handlerHdrs' = h
    /\ respHeaders' = h
    /\ phase' = IF installed THEN "resolved" ELSE "done"
    /\ outcome' = IF installed THEN "pending" ELSE "response"
    /\ UNCHANGED <<strict, installed, reqHeaders, slot, slotWrites,
                   handlerCalls, got, jar, jar0>>
    /\ UNCHANGED taskVars
    /\ UNCHANGED auxVars

\* The errors the inner service's future may resolve with.
HandlerErrors == {"e1", "e2"}

\* An error replaced by one of the middleware's own.
PropagateErrorMapped(e) == "middleware error"

\* The ? of fut.await?: return Err(From::from(e)), Error = S::Error.
PropagateError(e) == e

\* fut.await? : the handler's future resolves with a response, or with an
\* error the middleware returns as it is.
Resolve(h, r) ==
    /\ phase = "running"
    /\ IF r = "ok"
       THEN /\ handlerHdrs' = h
            /\ respHeaders' = h
            /\ phase' = "resolved"
            /\ outcome' = "pending"
            /\ jarAtResolve' = [done |-> TRUE, jar |-> jar,
                                quiet |-> \A t \in Tasks : pc[t] = "idle"]
            /\ UNCHANGED <<handlerErr, returnedErr>>
       ELSE /\ handlerHdrs' = <<>>
            /\ respHeaders' = <<>>
            /\ phase' = "done"
            /\ outcome' = "error"
            /\ handlerErr' = r
            /\ returnedErr' = IF installed THEN PropagateError(r) ELSE r
            /\ UNCHANGED jarAtResolve
    /\ UNCHANGED <<strict, installed, reqHeaders, slot, slotWrites,
                   handlerCalls, got, jar, jar0>>
    /\ UNCHANGED taskVars
    /\ UNCHANGED <<factory, mwArc, slotArc, gotArc, extracts, gotAgain,
                   serialized, retView, mreq, arcs>>

\* A failed parse answered with a Set-Cookie header all the same.
SkipResponseAppends(hh) == hh \o <<[hdr |-> "set-cookie", text |-> <<>>]>>

\* The response returned when `if let Ok(manager) = manager` does not
\* match: Ok(response), the handler's response as it came.
SkipResponse(hh) == hh

\* if let Ok(manager) = manager: the parse failed, nothing is appended.
ExitSkip ==
    /\ phase = "resolved"
    /\ slot.kind # "ok"
    /\ respHeaders' = SkipResponse(handlerHdrs)
    /\ phase' = "done"
    /\ outcome' = "response"
    /\ UNCHANGED <<strict, installed, reqHeaders, slot, slotWrites,
                   handlerCalls, got, jar, jar0, handlerHdrs>>
    /\ UNCHANGED taskVars
    /\ UNCHANGED auxVars

\* manager.as_header_value(): self.jar.lock().unwrap() in the response
\* future.
ExitLock ==
    /\ phase = "resolved"
    /\ slot.kind = "ok"
    /\ LockAvailable
    /\ IF poisoned
       THEN /\ phase' = "done"
            /\ outcome' = "panic"
            /\ UNCHANGED <<lock, snap>>
       ELSE /\ phase' = "exiting"
            /\ outcome' = outcome
            /\ lock' = Mw
            /\ snap' = [snap EXCEPT ![Mw] = jar]
    /\ UNCHANGED <<strict, installed, reqHeaders, slot, slotWrites,
                   handlerCalls, got, jar, jar0, handlerHdrs, respHeaders>>
    /\ UNCHANGED <<poisoned, pc, op, ret, retExp, lastMut, calls>>
    /\ UNCHANGED auxVars

SetCookie(s) == [hdr |-> "set-cookie", text |-> s]

\* headers.insert in the loop: each string replaces the one before it.
AppendedInsert(list) ==
    IF list = <<>> THEN <<>> ELSE <<SetCookie(list[Len(list)])>>

\* The headers the exit appends for a serialized jar: headers.append in a
\* loop over the strings.
Appended(list) == [i \in 1..Len(list) |-> SetCookie(list[i])]

\* HeaderValue::from_str(s) is Ok: every byte of s is a tab or a visible
\* character (not below 32, not 127).
HeaderValueFromStrOk(s) == \A i \in 1..Len(s) : s[i] # ControlCookie.value

\* jar.as_header_values(), the guard's drop, and the loop appending one
\* Set-Cookie header per string; HeaderValue::from_str(&cookie).unwrap()
\* panics on a string that is no header value and the response is lost.
ExitAppend ==
    /\ phase = "exiting"
    /\ LET list == AsHeaderValueBody(snap[Mw])
       IN IF \A i \in 1..Len(list) : HeaderValueFromStrOk(list[i])
          THEN /\ respHeaders' = handlerHdrs \o Appended(list)
               /\ outcome' = "response"
          ELSE /\ respHeaders' = <<>>
               /\ outcome' = "panic"
    /\ lock' = GuardDrop(Mw)
    /\ snap' = [snap EXCEPT ![Mw] = {}]
    /\ phase' = "done"
    /\ serialized' = [done |-> TRUE, jar |-> snap[Mw], quiet |-> TRUE]
    /\ UNCHANGED <<strict, installed, reqHeaders, slot, slotWrites,
                   handlerCalls, got, jar, jar0, handlerHdrs>>
    /\ UNCHANGED <<poisoned, pc, op, ret, retExp, lastMut, calls>>
    /\ UNCHANGED <<factory, mwArc, slotArc, gotArc, extracts, gotAgain,
                   jarAtResolve, retView, handlerErr, returnedErr, mreq,
                   arcs>>

Exit == ExitSkip \/ ExitLock \/ ExitAppend

Next ==
    \/ Entry
    \/ Dispatch
    \/ DirectDispatch
    \/ Extract
    \/ ExtractAgain
    \/ HandlerBody
    \/ \E t \in Tasks, o \in OpChoices : Start(t, o)
    \/ \E t \in Tasks : Acquire(t)
    \/ \E t \in Tasks : ManagerAdd(t)
    \/ \E t \in Tasks : ManagerSet(t)
    \/ \E t \in Tasks : ManagerRemove(t)
    \/ \E t \in Tasks : ManagerGet(t)
    \/ \E t \in Tasks : ManagerCookie(t)
    \/ \E t \in Tasks : ManagerAsHeaderValue(t)
    \/ \E h \in HandlerHeaderChoices : Reject(h)
    \/ \E h \in HandlerHeaderChoices, r \in {"ok"} \cup HandlerErrors :
          Resolve(h, r)
    \/ ExitSkip
    \/ ExitLock
    \/ ExitAppend

Spec == Init /\ [][Next]_vars

\* The requests the progress of the lock is checked on: no Cookie header,
\* a header of two cookies, a header strict parsing rejects, and a handler
\* mounted without the layer.
FairRequests ==
    {[strict |-> FALSE, installed |-> TRUE, headers |-> <<>>],
     [strict |-> FALSE, installed |-> TRUE,
      headers |-> <<[text |-> TRUE,
                     segs |-> <<Pair("a", "v1"), Pair("b", "v2")>>]>>],
     [strict |-> TRUE, installed |-> TRUE,
      headers |-> <<[text |-> TRUE, segs |-> <<Malformed>>]>>],
     [strict |-> FALSE, installed |-> FALSE, headers |-> <<>>]}

FairInit ==
    /\ Init
    /\ [strict |-> strict, installed |-> installed, headers |-> reqHeaders]
         \in FairRequests

\* Scheduling: a thread inside a manager call is not suspended for ever
\* (the sections hold no .await), and a response future whose inner future
\* has resolved is polled to its end.  Tasks need not start calls.
FairSpec ==
    /\ FairInit
    /\ [][Next]_vars
    /\ \A t \in Tasks : WF_vars(Acquire(t) \/ Section(t))
    /\ WF_vars(Exit)

\* ------------------------------------------- two requests, one middleware

Reqs == {"r1", "r2"}

\* The Cookie headers the two requests bring.
MultiHeaders ==
    {<<>>,
     <<[text |-> TRUE, segs |-> <<Pair("a", "v1")>>]>>,
     <<[text |-> TRUE, segs |-> <<Pair("b", "v2"), Malformed>>]>>}

\* A request that has not reached call() yet; arc 0 is no manager.
NewReq(h) ==
    [phase |-> "arrived", headers |-> h, slot |-> Absent, arc |-> 0,
     view |-> NoView, seen |-> NoJar, n |-> 0, resp |-> <<>>]

\* The calls a handler makes on its manager in this specification.
MultiOps ==
    {o \in OpChoices : /\ o.kind \in {"add", "remove"}
                       /\ ~o.bad
                       /\ o.cookie # ControlCookie}

\* Everything but the two requests and their jars.
mainVars == <<strict, installed, reqHeaders, phase, slot, slotWrites,
              handlerCalls, got, jar, jar0, lock, poisoned, pc, op, snap,
              ret, retExp, lastMut, calls, handlerHdrs, respHeaders,
              outcome, factory, mwArc, slotArc, gotArc, extracts, gotAgain,
              jarAtResolve, serialized, retView, handlerErr, returnedErr>>

\* One allocation that every call() uses again.
ArcShared(heap) == 1

\* Arc::new in CookieManager::new: an allocation no live Arc points to.
ArcNew(heap) == Len(heap) + 1

\* The heap with jar j behind Arc a.
Store(heap, a, j) ==
    IF a \in DOMAIN heap THEN [heap EXCEPT ![a] = j] ELSE Append(heap, j)

MultiInit ==
    /\ InitRequest
    /\ installed
    /\ reqHeaders = <<>>
    /\ mreq \in [Reqs -> {NewReq(h) : h \in MultiHeaders}]
    /\ arcs = <<>>

\* call() for request r, up to inner.call(req).
MultiEntry(r) ==
    /\ mreq[r].phase = "arrived"
    /\ LET out == SlotValue(strict, mreq[r].headers)
           a == IF out.kind = "ok" THEN ArcNew(arcs) ELSE 0
       IN /\ arcs' = IF out.kind = "ok"
                     THEN Store(arcs, a, ParsedJar(strict, mreq[r].headers))
                     ELSE arcs
          /\ mreq' = [mreq EXCEPT ![r] = [@ EXCEPT !.phase = "running",
                                                   !.slot = out,
                                                   !.arc = a]]
    /\ UNCHANGED mainVars

\* The handler of request r calls add or remove on its manager.
MultiMutate(r, o) ==
    /\ mreq[r].phase = "running"
    /\ mreq[r].arc # 0
    /\ mreq[r].n < MaxCalls
    /\ arcs' = [arcs EXCEPT ![mreq[r].arc] =
                   IF o.kind = "add" THEN AddBody(@, o.cookie)
                                     ELSE RemoveBody(@, o.name)]
    /\ mreq' = [mreq EXCEPT ![r] =
                   [@ EXCEPT !.n = @ + 1,
                             !.seen = NoJar,
                             !.view = [@ EXCEPT ![o.name] =
                                          [kind |-> o.kind,
                                           cookie |-> o.cookie]]]]
    /\ UNCHANGED mainVars

\* The handler of request r calls cookie() on its manager.
MultiRead(r) ==
    /\ mreq[r].phase = "running"
    /\ mreq[r].arc # 0
    /\ ~mreq[r].seen.done
    /\ mreq' = [mreq EXCEPT ![r] =
                   [@ EXCEPT !.seen = [done |-> TRUE,
                                       jar |-> JarCookie(arcs[mreq[r].arc]),
                                       quiet |-> TRUE]]]
    /\ UNCHANGED arcs
    /\ UNCHANGED mainVars

\* The handler of request r resolves with a response and the response
\* future appends the Set-Cookie headers.
MultiExit(r) ==
    /\ mreq[r].phase = "running"
    /\ mreq' = [mreq EXCEPT ![r] =
                   [@ EXCEPT !.phase = "done",
                             !.resp = IF mreq[r].slot.kind = "ok"
                                      THEN Appended(AsHeaderValueBody(
                                                      arcs[mreq[r].arc]))
                                      ELSE SkipResponse(<<>>)]]
    /\ UNCHANGED arcs
    /\ UNCHANGED mainVars

MultiNext ==
    \/ \E r \in Reqs : MultiEntry(r)
    \/ \E r \in Reqs, o \in MultiOps : MultiMutate(r, o)
    \/ \E r \in Reqs : MultiRead(r)
    \/ \E r \in Reqs : MultiExit(r)

MultiSpec == MultiInit /\ [][MultiNext]_vars

\* ------------------------------------------------------------- properties

\* The cookie-pairs of a header value's text.
PairsOf(hv) == {[name |-> hv.segs[i].name, value |-> hv.segs[i].value] :
                  i \in {k \in 1..Len(hv.segs) : hv.segs[k].wf}}

WellFormed(hv) == hv.text /\ \A i \in 1..Len(hv.segs) : hv.segs[i].wf

\* C1: a get(n) that has returned gives the cookie of the most recent
\* add/set of a cookie named n when no remove(n) came after it, and gives
\* nothing when the most recent mutation of n is remove(n); the jar may
\* start empty or hold the cookies of the decoded header.
C1_GetSeesLatestMutation ==
    \A t \in Tasks :
        ret[t].kind = "cookie" =>
            /\ retExp[t].kind = "add" => ret[t].cookie = retExp[t].cookie
            /\ retExp[t].kind = "remove" => ret[t].cookie = NoCookie

\* A get returned the cookie a set had just put over the one that came
\* with the request's header.
C1_Witness ==
    \E t \in Tasks :
        /\ ret[t].kind = "cookie"
        /\ retExp[t].kind = "add"
        /\ ret[t].cookie = retExp[t].cookie
        /\ JarGet(jar0, ret[t].name) \notin {NoCookie, ret[t].cookie}

\* C2: when the request's Cookie header (its first occurrence) is well
\* formed, the handler retrieves a manager, and for every pair name=value
\* of that header get(name) gives a cookie with that value: in the jar as
\* retrieved, and from any get that reads the name before a mutation of it.
C2_HeaderPairsRetrievable ==
    /\ (installed /\ phase = "extracted" /\ reqHeaders # <<>>
          /\ WellFormed(Head(reqHeaders)))
         => /\ got.kind = "ok"
            /\ \A c \in PairsOf(Head(reqHeaders)) :
                   GetBody(jar, c.name).value = c.value
    /\ \A t \in Tasks :
           (ret[t].kind = "cookie" /\ retExp[t].kind = "none")
             => ret[t].cookie = JarGet(jar0, ret[t].name)

\* The handler has retrieved the manager of a request whose one header is
\* "a=v1; b=v2", and both cookies are in its jar.
C2_Witness ==
    /\ installed
    /\ phase = "extracted"
    /\ got.kind = "ok"
    /\ Len(reqHeaders) = 1
    /\ WellFormed(Head(reqHeaders))
    /\ Cardinality(PairsOf(Head(reqHeaders))) = 2
    /\ \A c \in PairsOf(Head(reqHeaders)) : GetBody(jar, c.name) = c

\* C3: when the request carries several Cookie header occurrences, every
\* cookie-pair of every occurrence is in the jar the handler sees.
C3_AllOccurrencesDecoded ==
    (installed /\ phase = "extracted" /\ got.kind = "ok")
      => \A i \in 1..Len(reqHeaders) :
             reqHeaders[i].text
               => \A c \in PairsOf(reqHeaders[i]) :
                      GetBody(jar, c.name) # NoCookie

\* C4: in lenient mode the Parse Outcome stored in the slot is a usable
\* manager, whatever the request's Cookie header value is.
C4_LenientNeverFails ==
    (installed /\ ~strict /\ slotWrites > 0) => slot.kind = "ok"

\* C5: no manager call leaves the mutex poisoned, whatever its argument,
\* so no later call on any clone fails on the lock.
C5_LockNeverPoisoned ==
    /\ ~poisoned
    /\ \A t \in Tasks : pc[t] # "dead"

\* C6: in any interleaving of the tasks' calls, the jar is what the calls
\* give when applied one after the other in the order they held the lock
\* (which follows each task's own call order): per name, the cookie of
\* the last add/set, nothing after a last remove, and the request's own
\* cookie for a name no call touched.
C6_JarIsSequentialResult ==
    \A n \in Names :
        {c \in jar : c.name = n} =
            IF lastMut[n].kind = "add" THEN {lastMut[n].cookie}
            ELSE IF lastMut[n].kind = "remove" THEN {}
            ELSE {c \in jar0 : c.name = n}

\* Two tasks have each completed one add, of different names, on an empty
\* jar, and both cookies are there.
C6_Witness ==
    /\ jar0 = {}
    /\ calls = 2
    /\ \A t \in Tasks : ret[t].kind = "unit" /\ pc[t] = "idle"
    /\ \A n \in Names : lastMut[n].kind = "add" /\ lastMut[n].cookie \in jar
    /\ Cardinality(jar) = 2

\* The guard is alive exactly inside a call's section: no task holds it
\* between its calls, the response future holds it only inside
\* as_header_value() (never across fut.await), and a lock() is only ever
\* issued by a caller that holds no guard.
LockDiscipline ==
    /\ \A t \in Tasks : (lock = t) <=> (pc[t] = "held")
    /\ (lock = Mw) <=> (phase = "exiting")

InCall(t) == pc[t] \in {"wait", "held"}

\* C7: no deadlock.  Under fair scheduling every started manager call, and
\* the exit's serialization, gets the lock and ends with the guard dropped
\* (by returning, or by unwinding when the call panics), and the guard is
\* held only inside a section.
C7_NoDeadlock ==
    /\ [](LockDiscipline)
    /\ \A t \in Tasks : InCall(t) ~> (~InCall(t) /\ lock # t)
    /\ (phase = "resolved") ~> (phase = "done" /\ lock # Mw)

\* One task holds the guard while the other task and the exit's
\* serialization both wait for it.
C7_Witness ==
    /\ phase = "resolved"
    /\ slot.kind = "ok"
    /\ \E t, u \in Tasks : pc[t] = "held" /\ pc[u] = "wait"

\* C8: on every request the middleware stores one Parse Outcome in the
\* slot before it calls the handler, and calls the handler once, whether
\* the outcome is a manager or a failure.
C8_OneOutcomeThenOneCall ==
    installed =>
        /\ slotWrites <= 1
        /\ handlerCalls <= 1
        /\ handlerCalls = 1 => (slotWrites = 1 /\ slot.kind \in {"ok", "err"})
        /\ phase = "entered" => (slotWrites = 1 /\ ENABLED Dispatch)
        /\ phase \notin {"arrived", "entered"} => handlerCalls = 1

\* A request whose parse failed has been through the handler, once.
C8_Witness ==
    /\ installed
    /\ phase = "done"
    /\ slot.kind = "err"
    /\ slotWrites = 1
    /\ handlerCalls = 1

\* C9: when the Parse Outcome is a failure, the response the middleware
\* returns has exactly the headers the handler's response had.
C9_FailureAppendsNothing ==
    (installed /\ slot.kind = "err" /\ phase = "done" /\ outcome = "response")
      => respHeaders = handlerHdrs

\* A failed parse, and a response returned with the handler's own header.
C9_Witness ==
    /\ installed
    /\ slot.kind = "err"
    /\ phase = "done"
    /\ outcome = "response"
    /\ respHeaders = <<HandlerHeader>>

\* C10: with the slot absent, retrieval gives an error value of a 5xx
\* status with the fixed message; it yields no manager and does not panic,
\* and no recorded parse failure has that status or that message.
C10_AbsentSlotIsServerError ==
    /\ (slot.kind = "absent"
          /\ phase \notin {"arrived", "entered", "dispatched"})
         => /\ got.kind = "err"
            /\ got.status = INTERNAL_SERVER_ERROR
            /\ got.status \in 500..599
            /\ got.msg = "CookieLayer is not initialized"
            /\ outcome # "panic"
    /\ \A r \in {slot, got} :
           (r.kind = "err" /\ slot.kind # "absent")
             => /\ r.status # INTERNAL_SERVER_ERROR
                /\ r.msg # "CookieLayer is not initialized"

\* A handler mounted without the layer has asked for the manager and got
\* the rejection.
C10_Witness ==
    /\ ~installed
    /\ slot.kind = "absent"
    /\ phase = "done"
    /\ got.kind = "err"
    /\ got.status = INTERNAL_SERVER_ERROR

\* C11: with a parse failure in the slot every retrieval fails with the
\* recorded 400 and its message, with a manager in the slot every
\* retrieval gives a manager on the middleware's own jar, and a retrieval
\* leaves the slot as it was, so a repeated retrieval gives the same.
C11_RetrievalMirrorsSlot ==
    (installed /\ phase = "extracted")
      => /\ slot = SlotValue(strict, reqHeaders)
         /\ slot.kind = "err"
              => /\ got = slot
                 /\ got.status = BAD_REQUEST
                 /\ gotArc = NoArc
         /\ slot.kind = "ok"
              => /\ got.kind = "ok"
                 /\ gotArc # NoArc
                 /\ gotArc = mwArc
         /\ extracts > 1 => gotAgain = got

\* Two retrievals in one request whose parse failed, both rejected alike.
C11_Witness ==
    /\ installed
    /\ phase = "extracted"
    /\ extracts = 2
    /\ slot.kind = "err"
    /\ got.status = BAD_REQUEST
    /\ gotAgain = got

\* The response carries the handler's headers and then one Set-Cookie
\* header per string of the list, in the list's order.
CarriesInOrder(list) ==
    /\ Len(respHeaders) = Len(handlerHdrs) + Len(list)
    /\ \A i \in 1..Len(handlerHdrs) : respHeaders[i] = handlerHdrs[i]
    /\ \A i \in 1..Len(list) :
          respHeaders[Len(handlerHdrs) + i]
            = [hdr |-> "set-cookie", text |-> list[i]]

\* The request went through the layer, parsed, and was answered.
AnsweredOk ==
    /\ installed
    /\ phase = "done"
    /\ outcome = "response"
    /\ slot.kind = "ok"

AppendedTexts ==
    [i \in 1..(Len(respHeaders) - Len(handlerHdrs)) |->
        respHeaders[Len(handlerHdrs) + i].text]

\* C13: the response of a parsed request carries exactly one appended
\* Set-Cookie header for every cookie in the jar when it was serialized,
\* and nothing else; so a cookie of the request header that no call
\* touched is sent back.
C13_OneHeaderPerCookie ==
    AnsweredOk
      => /\ Len(AppendedTexts) = Cardinality(serialized.jar)
         /\ \A c \in serialized.jar :
               Cardinality({i \in 1..Len(AppendedTexts) :
                              AppendedTexts[i] = CookieToString(c)}) = 1
         /\ \A c \in jar0 :
               lastMut[c.name].kind = "none"
                 => \E i \in 1..Len(AppendedTexts) :
                       AppendedTexts[i] = CookieToString(c)

\* A request with two cookies whose handler touched one of them: the
\* other one is in the response all the same.
C13_Witness ==
    /\ AnsweredOk
    /\ Cardinality(jar0) = 2
    /\ \E c \in jar0 :
          /\ lastMut[c.name].kind = "none"
          /\ \E i \in 1..Len(AppendedTexts) :
                AppendedTexts[i] = CookieToString(c)
    /\ \E c \in jar0 : lastMut[c.name].kind = "remove"

\* At most one cookie of each name.
OnePerName(j) == \A c, d \in j : c.name = d.name => c = d

\* C14: a jar holds at most one cookie per name, whatever calls were made
\* through whichever clones, and so do the sets cookie() returned and
\* the appended Set-Cookie headers; a name added again has the latest
\* value only.
C14_OneCookiePerName ==
    /\ OnePerName(jar)
    /\ \A p \in Procs : OnePerName(snap[p])
    /\ \A t \in Tasks : OnePerName(ret[t].set)
    /\ AnsweredOk
         => /\ \A i, k \in 1..Len(AppendedTexts) :
                  AppendedTexts[i][1] = AppendedTexts[k][1] => i = k
            /\ \A n \in Names :
                  (jarAtResolve.quiet /\ lastMut[n].kind \in {"add", "set"})
                    => \A i \in 1..Len(AppendedTexts) :
                          AppendedTexts[i][1] = n
                            => AppendedTexts[i][3] = lastMut[n].cookie.value

\* The request brought a=v1 (or b=v2), the handler added the same name
\* with the other value: the response carries the new value only.
C14_Witness ==
    /\ AnsweredOk
    /\ jarAtResolve.quiet
    /\ \E c \in jar0 :
          /\ lastMut[c.name].kind = "add"
          /\ lastMut[c.name].cookie.value # c.value
          /\ \E i \in 1..Len(AppendedTexts) :
                AppendedTexts[i] = CookieToString(lastMut[c.name].cookie)
          /\ \A i \in 1..Len(AppendedTexts) :
                AppendedTexts[i] # CookieToString(c)

\* The jar that the mutations completed so far (view: per name, the
\* latest one in lock order) make of the jar the manager was built with.
JarAfterOf(j0, view) ==
    {c \in j0 : view[c.name].kind = "none"}
      \cup {view[n].cookie : n \in {m \in Names : view[m].kind \in {"add", "set"}}}

JarAfter(view) == JarAfterOf(jar0, view)

\* C15: a get, cookie() or as_header_value() that returned, on any clone,
\* gave the jar that all mutations completed before it (through whichever
\* clone, each task's in the order it called them) make of the initial
\* jar, and so does the exit's serialization.
C15_ReadsSeeCompletedMutations ==
    /\ \A t \in Tasks :
          /\ ret[t].kind = "cookie"
               => ret[t].cookie = JarGet(JarAfter(retView[t]), ret[t].name)
          /\ ret[t].kind = "set" => ret[t].set = JarAfter(retView[t])
          /\ ret[t].kind = "list"
               => ret[t].list = JarAsHeaderValues(JarAfter(retView[t]))
    /\ (AnsweredOk /\ jarAtResolve.quiet) => serialized.jar = JarAfter(lastMut)

\* Task t1 removed a cookie the request brought, then task t2 called
\* cookie(): the set t2 got lacks that cookie.
C15_Witness ==
    /\ calls = 2
    /\ ret["t1"].kind = "unit"
    /\ ret["t2"].kind = "set"
    /\ \E c \in jar0 :
          /\ retView["t2"][c.name].kind = "remove"
          /\ c \notin ret["t2"].set

\* The Cookie header the middleware reads has an entry that is no pair.
ReadsMalformed ==
    /\ reqHeaders # <<>>
    /\ reqHeaders[1].text
    /\ \E i \in 1..Len(reqHeaders[1].segs) : ~reqHeaders[1].segs[i].wf

\* C17: the middleware's parsing mode is the one of the factory that made
\* the layer, unchanged by layer(); for a header with a malformed entry
\* the parse outcome is a failure exactly when the layer is the strict one.
C17_ModeIsFactorys ==
    /\ strict = (factory = "strict")
    /\ (installed /\ phase \in {"entered", "dispatched", "extracted"}
          /\ ReadsMalformed)
         => (slot.kind = "err" <=> factory = "strict")

\* A strict layer that rejected a header with a malformed entry.
C17_Witness ==
    /\ installed
    /\ phase = "extracted"
    /\ ReadsMalformed
    /\ factory = "strict"
    /\ slot.kind = "err"
    /\ got.status = BAD_REQUEST

\* The jar request r's own header and own calls make.
OwnJar(r) ==
    JarAfterOf(ParsedJar(strict, mreq[r].headers), mreq[r].view)

\* C16: of two requests going through one middleware in any interleaving,
\* each has a jar of its own, built from its own Cookie header and changed
\* by its own handler's calls only: what its handler reads and what its
\* response carries never shows the other request's cookies or calls.
C16_JarsNotShared ==
    /\ \A r, q \in Reqs :
          (r # q /\ mreq[r].arc # 0 /\ mreq[q].arc # 0)
            => mreq[r].arc # mreq[q].arc
    /\ \A r \in Reqs :
          /\ mreq[r].arc # 0 => arcs[mreq[r].arc] = OwnJar(r)
          /\ mreq[r].seen.done => mreq[r].seen.jar = OwnJar(r)
          /\ (mreq[r].phase = "done" /\ mreq[r].slot.kind = "ok")
               => LET list == JarAsHeaderValues(OwnJar(r))
                  IN /\ Len(mreq[r].resp) = Len(list)
                     /\ \A i \in 1..Len(list) :
                           mreq[r].resp[i]
                             = [hdr |-> "set-cookie", text |-> list[i]]

\* Request r1 brought a=v1 and its handler only read the jar, request r2
\* brought no cookie and its handler added one; both were answered, r1
\* with a=v1 alone, r2 with its own cookie alone.
C16_Witness ==
    /\ mreq["r1"].phase = "done"
    /\ mreq["r2"].phase = "done"
    /\ mreq["r1"].headers # <<>>
    /\ mreq["r2"].headers = <<>>
    /\ mreq["r1"].n = 0
    /\ mreq["r2"].n = 1
    /\ mreq["r1"].seen.done
    /\ Len(mreq["r1"].resp) = 1
    /\ Len(mreq["r2"].resp) = 1
    /\ mreq["r1"].resp # mreq["r2"].resp

\* Task t's remove returns in this step, and the jar has no cookie of the
\* name it was called with.
RemovesAbsent(t) ==
    /\ pc[t] = "held"
    /\ op[t].kind = "remove"
    /\ JarGet(jar, op[t].name) = NoCookie
    /\ pc'[t] = "idle"

\* C18: a remove(name) on a jar holding no cookie of that name returns
\* normally and changes nothing one can observe: get of every name,
\* cookie() and as_header_value() give afterwards what they gave before.
C18_RemoveAbsentIsNoOp ==
    [][\A t \in Tasks :
          RemovesAbsent(t)
            => /\ ret'[t] = Unit
               /\ poisoned' = poisoned
               /\ \A n \in Names : JarGet(jar', n) = JarGet(jar, n)
               /\ JarCookie(jar') = JarCookie(jar)
               /\ JarAsHeaderValues(jar') = JarAsHeaderValues(jar)]_vars

\* The one call made was a remove of a name the request's cookies do not
\* have; it returned and the jar still holds the request's cookies.
C18_Witness ==
    /\ calls = 1
    /\ jar0 # {}
    /\ jar = jar0
    /\ \E n \in Names :
          /\ lastMut[n].kind = "remove"
          /\ JarGet(jar0, n) = NoCookie
    /\ \E t \in Tasks : ret[t] = Unit

\* C20: when the handler's future resolved with an error, the middleware's
\* future returned that very error: there is no response, the jar was
\* neither locked nor serialized by the exit and no Set-Cookie header
\* exists, whether the parse had failed or not and whatever the handler
\* did to the jar.
C20_ErrorPassesThrough ==
    (installed /\ handlerErr # NoErr)
      => /\ phase = "done"
         /\ outcome = "error"
         /\ returnedErr = handlerErr
         /\ respHeaders = <<>>
         /\ ~serialized.done
         /\ lock # Mw
         /\ snap[Mw] = {}

\* A handler that changed its jar and then failed.
C20_Witness ==
    /\ installed
    /\ handlerErr \in HandlerErrors
    /\ returnedErr = handlerErr
    /\ slot.kind = "ok"
    /\ jar # jar0
    /\ outcome = "error"

\* C19: whenever the parse succeeded and the handler produced a response,
\* the exit ends with a response, whatever cookies the handler added
\* (stated for a mutex no earlier panic has poisoned).
C19_ExitAlwaysCompletes ==
    (installed /\ slot.kind = "ok" /\ phase = "done" /\ handlerErr = NoErr
       /\ ~poisoned)
      => outcome = "response"

====
